---- MODULE Spec2Model ----
(***************************************************************************)
(* Animation channel extraction (grab_animations, src/src/model/           *)
(* animation.rs) and timeline resampling (the skinned branch of load,      *)
(* src/src/lib.rs, duplicated verbatim in finalize_animations) of          *)
(* minetest-gltf.                                                          *)
(*                                                                         *)
(* Number representation.  An f32 time is an integer number of ticks,      *)
(* TimeScale ticks to the second, TimeScale = SubKeyTicks * 100000, so     *)
(* that into_precision (x * 100_000.0 truncated) is a real truncation.     *)
(* A component of a Vec3/Quat/weight is an integer number of 1/ValScale.   *)
(* Results of f32 divisions are rounded to the nearest tick / value unit.  *)
(* NaN, +inf and -inf are kept as three reserved integers outside the      *)
(* range of every finite value of the model.                               *)
(***************************************************************************)
EXTENDS Integers, Sequences, FiniteSets, TLC

\* ------------------------------------------------------------------ bounds
\* Channels read from the first animation clip.
MaxChannels == 2
\* Node (bone) ids are 0 .. MaxNode - 1.
MaxNode == 2
\* Ticks below one precision key.
SubKeyTicks == 2
\* Value units per 1.0.
ValScale == 100

\* --------------------------------------------------------------- constants
\* into_precision multiplies by 100_000.0.
PrecisionFactor == 100000
\* f32::MAX, the start value of min_distance_worker: larger than every time
\* and every gap of the model.
F32_MAX == 2000000000

TimeScale == SubKeyTicks * PrecisionFactor
NaN == (0 - F32_MAX) - 3
PosInf == F32_MAX + 1
NegInf == (0 - F32_MAX) - 1
\* usize::MAX, the result of casting +inf to usize.
USIZE_MAX == F32_MAX + 2

IsFinite(x) == x # NaN /\ x # PosInf /\ x # NegInf

\* n tenths of a second, in ticks.
T(n) == n * (TimeScale \div 10)
\* The value n.0, in value units.
V(n) == n * ValScale

Abs(x) == IF x < 0 THEN 0 - x ELSE x
Min(a, b) == IF a < b THEN a ELSE b
SeqRange(s) == {s[i] : i \in 1..Len(s)}

\* a / b truncated toward zero (b > 0).
TruncDiv(a, b) == IF a >= 0 THEN a \div b ELSE 0 - ((0 - a) \div b)
\* a / b rounded to the nearest integer, halves away from zero (b > 0).
RoundUp(a, b) == IF (a % b) >= b - (a % b) THEN (a \div b) + 1 ELSE a \div b
RoundDiv(a, b) == IF a >= 0 THEN RoundUp(a, b) ELSE 0 - RoundUp(0 - a, b)

\* ------------------------------------------------------------- f32 helpers
\* a - b on f32.
FSub(a, b) ==
  IF a = NaN \/ b = NaN THEN NaN
  ELSE IF a = PosInf THEN (IF b = PosInf THEN NaN ELSE PosInf)
  ELSE IF a = NegInf THEN (IF b = NegInf THEN NaN ELSE NegInf)
  ELSE IF b = PosInf THEN NegInf
  ELSE IF b = NegInf THEN PosInf
  ELSE a - b

\* a + b on f32.
FAdd(a, b) ==
  IF a = NaN \/ b = NaN THEN NaN
  ELSE IF a = PosInf THEN (IF b = NegInf THEN NaN ELSE PosInf)
  ELSE IF a = NegInf THEN (IF b = PosInf THEN NaN ELSE NegInf)
  ELSE IF b = PosInf \/ b = NegInf THEN b
  ELSE a + b

\* A fraction num / den of two finite f32 numbers, kept unevaluated:
\* den = 0 stands for the f32 quotient NaN (0/0), +inf or -inf.
Frac(num, den) == <<num, den>>
FracNaN == <<NaN, 1>>

\* d * s for a finite difference d and a fraction s, in the unit of d.
FMulFrac(d, s) ==
  IF d = NaN \/ s[1] = NaN THEN NaN
  ELSE IF ~IsFinite(d) THEN NaN
  ELSE IF s[2] = 0 THEN
         (IF s[1] = 0 \/ d = 0 THEN NaN
          ELSE IF (s[1] > 0) = (d > 0) THEN PosInf ELSE NegInf)
  ELSE IF s[2] > 0 THEN RoundDiv(d * s[1], s[2])
  ELSE RoundDiv(d * (0 - s[1]), 0 - s[2])


\* ------------------------------------------------------- input: the clip
Nodes == 0..(MaxNode - 1)

\* Values of the keyframes of a track: keyframe j of a Vec3 track is
\* (x0 + 10 (j-1), x0, 0).
Vec3Seq(n, x0) == [j \in 1..n |-> <<V(x0 + 10 * (j - 1)), V(x0), 0>>]
\* Unit quaternions (x, y, z, w): a half turn about x, the identity, a half
\* turn about y, in turn.
QuatOf(j) == IF j % 3 = 1 THEN <<V(1), 0, 0, 0>>
             ELSE IF j % 3 = 2 THEN <<0, 0, 0, V(1)>>
             ELSE <<0, V(1), 0, 0>>
\* The quaternion -q: the same rotation as q, at a negative dot product.
Opposite(q) == [c \in 1..4 |-> 0 - q[c]]
QuatSeq(n) == [j \in 1..n |-> QuatOf(j)]
\* A morph-target weight is kept as a tuple of one component.
WeightSeq(n) == [j \in 1..n |-> <<V(j)>>]

Track(t, v) == [ts |-> t, vals |-> v]

\* Timestamp arrays of a channel: no keyframe, one keyframe, two keyframes
\* spanning a second, a tenth of a second, three unevenly spaced keyframes,
\* a duplicate timestamp, timestamps out of order, a track that starts late,
\* a track that ends early, three evenly spaced keyframes.
TimestampSeqs ==
  { <<>>, <<0>>, <<T(10)>>, <<0, T(10)>>, <<0, T(1)>>, <<0, T(3), T(10)>>,
    <<T(3), T(3)>>, <<T(10), 0>>, <<T(1), T(10)>>, <<0, T(3)>>, <<0, T(5), T(10)>> }

TranslationTracks ==
  {Track(t, Vec3Seq(Len(t), 0)) : t \in TimestampSeqs}
    \cup {Track(<<0, T(10)>>, Vec3Seq(3, 0)), Track(<<T(10)>>, Vec3Seq(1, 2))}
RotationTracks ==
  {Track(t, QuatSeq(Len(t))) :
     t \in {<<>>, <<0>>, <<0, T(10)>>, <<0, T(1)>>, <<0, T(3), T(10)>>, <<T(3), T(3)>>}}
    \cup {Track(<<0, T(10)>>, QuatSeq(3)),
          Track(<<0, T(10)>>, <<QuatOf(1), Opposite(QuatOf(1))>>)}
ScaleTracks ==
  {Track(t, Vec3Seq(Len(t), 1)) :
     t \in {<<>>, <<0>>, <<0, T(10)>>, <<0, T(1)>>, <<T(1), T(10)>>}}
    \cup {Track(<<0, T(10)>>, Vec3Seq(3, 1)), Track(<<0, 0, T(10)>>, Vec3Seq(3, 1))}
WeightTracks ==
  {Track(t, WeightSeq(Len(t))) : t \in {<<0, T(10)>>, <<0, T(1)>>, <<T(3), T(3)>>}}
    \cup {Track(<<0, T(10)>>, WeightSeq(4)), Track(<<0, T(1)>>, <<>>)}

IntRotations == {"RotationsI8", "RotationsU8", "RotationsI16", "RotationsU16"}
IntWeights == {"WeightsI8", "WeightsU8", "WeightsI16", "WeightsU16"}

\* A channel as its reader presents it: `inputs` is what read_inputs()
\* returns (a standard iterator, a sparse one, or None), `outputs` the
\* variant of read_outputs() (or None), `node` the target node index.
Channel(i, o, n, tr) == [inputs |-> i, outputs |-> o, node |-> n, ts |-> tr.ts, vals |-> tr.vals]

DataChannels ==
  {Channel("Standard", "Translations", n, tr) : n \in Nodes, tr \in TranslationTracks}
    \cup {Channel("Standard", "RotationsF32", n, tr) : n \in Nodes, tr \in RotationTracks}
    \cup {Channel("Standard", "Scales", n, tr) : n \in Nodes, tr \in ScaleTracks}
    \cup {Channel("Standard", "WeightsF32", n, tr) : n \in Nodes, tr \in WeightTracks}
BrokenChannels ==
  {Channel("Sparse", "Translations", 0, Track(<<0, T(10)>>, Vec3Seq(2, 0))),
   Channel("None", "Translations", 0, Track(<<>>, Vec3Seq(2, 0))),
   Channel("Standard", "None", 0, Track(<<0, T(10)>>, <<>>))}
    \cup {Channel("Standard", o, 0, Track(<<0, T(10)>>, QuatSeq(2))) : o \in IntRotations}
    \cup {Channel("Standard", o, 0, Track(<<0, T(10)>>, WeightSeq(2))) : o \in IntWeights}
Channels == DataChannels \cup BrokenChannels

\* The component kind a channel animates.
KindOf(ch) ==
  IF ch.outputs = "Translations" THEN "translation"
  ELSE IF ch.outputs \in IntRotations \cup {"RotationsF32"} THEN "rotation"
  ELSE IF ch.outputs = "Scales" THEN "scale"
  ELSE IF ch.outputs \in IntWeights \cup {"WeightsF32"} THEN "weights"
  ELSE "none"

\* ------------------------------------------------- BoneAnimationChannel
BoneAnimationChannel ==
  [translations |-> <<>>, translation_timestamps |-> <<>>,
   rotations |-> <<>>, rotation_timestamps |-> <<>>,
   scales |-> <<>>, scale_timestamps |-> <<>>,
   weights |-> <<>>, weight_timestamps |-> <<>>]

\* AHashMap::new(): the mapping with no key.
EmptyMap == [n \in {} |-> BoneAnimationChannel]
\* bone_animation_channels.entry(bone_id).or_default()
EntryOrDefault(m, id) ==
  [n \in DOMAIN m \cup {id} |-> IF n \in DOMAIN m THEN m[n] ELSE BoneAnimationChannel]

\* ---------------------------------------------------- grab_animations
\* `break` without the clear().
StopOnly(m) == [channels |-> m, brk |-> TRUE]
\* bone_animation_channels.clear(); break;
ClearAndStop(m) == [channels |-> EmptyMap, brk |-> TRUE]
Stored(m) == [channels |-> m, brk |-> FALSE]

\* read_inputs() is None or a sparse iterator.
UnreadableInputs(ch) == ch.inputs # "Standard"
\* generic_failure in the rotation arms only.
NotImplementedRotations(outputs) == outputs \in IntRotations
\* The arms of `match outputs` that end in generic_failure.
NotImplemented(outputs) == outputs \in IntRotations \cup IntWeights
\* Only a payload shorter than the timestamps counted as a mismatch.
LengthShort(vals, ts) == Len(vals) < Len(ts)
\* translations.len() != timestamps.len()
LengthMismatch(vals, ts) == Len(vals) # Len(ts)
\* !animation_channel.translations.is_empty()
AlreadyHas(field) == field # <<>>

\* One iteration of the loop over first_animation.channels(): the mapping
\* after the channel and whether the loop was left by `break`.
ExtractChannel(m, ch) ==
  IF UnreadableInputs(ch) THEN ClearAndStop(m)
  ELSE IF ch.outputs = "None" THEN ClearAndStop(m)
  ELSE IF NotImplemented(ch.outputs) THEN ClearAndStop(m)
  ELSE LET e == EntryOrDefault(m, ch.node)
           r == e[ch.node]
       IN CASE KindOf(ch) = "translation" ->
                 IF AlreadyHas(r.translations) THEN ClearAndStop(m)
                 ELSE IF LengthMismatch(ch.vals, ch.ts) THEN ClearAndStop(m)
                 ELSE Stored([e EXCEPT ![ch.node].translations = ch.vals,
                                       ![ch.node].translation_timestamps = ch.ts])
            [] KindOf(ch) = "rotation" ->
                 IF AlreadyHas(r.rotations) THEN ClearAndStop(m)
                 ELSE IF LengthMismatch(ch.vals, ch.ts) THEN ClearAndStop(m)
                 ELSE Stored([e EXCEPT ![ch.node].rotations = ch.vals,
                                       ![ch.node].rotation_timestamps = ch.ts])
            [] KindOf(ch) = "scale" ->
                 IF AlreadyHas(r.scales) THEN ClearAndStop(m)
                 ELSE IF LengthMismatch(ch.vals, ch.ts) THEN ClearAndStop(m)
                 ELSE Stored([e EXCEPT ![ch.node].scales = ch.vals,
                                       ![ch.node].scale_timestamps = ch.ts])
            [] KindOf(ch) = "weights" ->
                 IF AlreadyHas(r.weights) THEN ClearAndStop(m)
                 ELSE Stored([e EXCEPT ![ch.node].weights = ch.vals,
                                       ![ch.node].weight_timestamps = ch.ts])

\* ------------------------------------------------ global timing (load)
\* f32::MIN, the start value of old_timestamp.
F32_MIN == 0 - F32_MAX
\* *timestamp - old_timestamp: the difference with f32::MIN rounds to f32::MAX.
Gap(timestamp, old_timestamp) ==
  IF old_timestamp = F32_MIN THEN F32_MAX ELSE timestamp - old_timestamp

\* The closure devolve_timestamp_data, from index i of raw_timestamps on;
\* w holds the three workers, old the previous timestamp.
RECURSIVE DevolveFrom(_, _, _, _)
DevolveFrom(w, raw_timestamps, i, old) ==
  IF i > Len(raw_timestamps) THEN w
  ELSE LET t == raw_timestamps[i]
           w1 == [min_time |-> IF t < w.min_time THEN t ELSE w.min_time,
                  max_time |-> IF t > w.max_time THEN t ELSE w.max_time,
                  min_distance |-> IF Gap(t, old) < w.min_distance
                                   THEN Gap(t, old) ELSE w.min_distance]
       IN DevolveFrom(w1, raw_timestamps, i + 1, t)
devolve_timestamp_data(w, raw_timestamps) == DevolveFrom(w, raw_timestamps, 1, F32_MIN)

\* The four calls of the closure for one node record.
DevolveRecord(w, animation) ==
  devolve_timestamp_data(
    devolve_timestamp_data(
      devolve_timestamp_data(
        devolve_timestamp_data(w, animation.translation_timestamps),
        animation.rotation_timestamps),
      animation.rotation_timestamps),
    animation.weight_timestamps)

RECURSIVE DevolveAll(_, _, _)
DevolveAll(w, m, ids) ==
  IF ids = {} THEN w
  ELSE LET id == CHOOSE n \in ids : \A k \in ids : n <= k
       IN DevolveAll(DevolveRecord(w, m[id]), m, ids \ {id})

\* (min_time, max_time, min_distance) of the mapping.
TimingOf(m) ==
  DevolveAll([min_time |-> 0, max_time |-> 0, min_distance |-> F32_MAX], m, DOMAIN m)

\* (max_time / min_distance).round() on f32.
RoundedQuotient(max, dist) ==
  IF dist = 0 THEN (IF max = 0 THEN NaN ELSE IF max > 0 THEN PosInf ELSE NegInf)
  ELSE IF dist > 0 THEN RoundDiv(max, dist)
  ELSE RoundDiv(0 - max, 0 - dist)
\* `as usize`: NaN and negative numbers give 0, +inf saturates.
AsUsize(x) ==
  IF x = NaN \/ x = NegInf THEN 0
  ELSE IF x = PosInf THEN USIZE_MAX
  ELSE IF x < 0 THEN 0 ELSE x
\* The frame count before the `+ 1`.
FrameQuotient(max, dist) == AsUsize(RoundedQuotient(max, dist))
\* The `+ 1` dropped.
RequiredFramesOffByOne(max, dist) == FrameQuotient(max, dist)
\* required_frames, when the `+ 1` does not overflow.
RequiredFrames(max, dist) == FrameQuotient(max, dist) + 1


\* ------------------------------------------------------ interpolation
\* Vec3::lerp, one component: a + (b - a) * s.
LerpComponent(a, b, s) == FAdd(a, FMulFrac(FSub(b, a), s))
Vec3Lerp(a, b, s) == [c \in 1..3 |-> LerpComponent(a[c], b[c], s)]

\* The integer nearest to the square root of n (n >= 0).
RECURSIVE SqrtBetween(_, _, _)
SqrtBetween(n, lo, hi) ==
  IF lo >= hi THEN lo
  ELSE LET mid == (lo + hi + 1) \div 2
       IN IF mid * mid <= n THEN SqrtBetween(n, mid, hi) ELSE SqrtBetween(n, lo, mid - 1)
Sqrt(n) == LET f == SqrtBetween(n, 0, n) IN IF n - f * f > f THEN f + 1 ELSE f

\* Quat::normalize: every component times 1 / length.
Normalize(q) ==
  IF \E c \in 1..4 : q[c] = NaN THEN [c \in 1..4 |-> NaN]
  ELSE IF \E c \in 1..4 : ~IsFinite(q[c])
       THEN [c \in 1..4 |-> IF IsFinite(q[c]) THEN 0 ELSE NaN]
  ELSE LET len == Sqrt(q[1] * q[1] + q[2] * q[2] + q[3] * q[3] + q[4] * q[4])
       IN IF len = 0 THEN [c \in 1..4 |-> NaN]
          ELSE [c \in 1..4 |-> RoundDiv(q[c] * ValScale, len)]

\* Quat::lerp: towards end or -end, whichever is nearer, then normalized.
QuatLerp(a, b, s) ==
  LET dot == a[1] * b[1] + a[2] * b[2] + a[3] * b[3] + a[4] * b[4]
      bias == IF dot >= 0 THEN 1 ELSE 0 - 1
  IN Normalize([c \in 1..4 |-> LerpComponent(a[c], bias * b[c], s)])

Lerp(kind, a, b, s) == IF kind = "rotation" THEN QuatLerp(a, b, s) ELSE Vec3Lerp(a, b, s)

\* A fill that takes the zero vector for scale as well.
IdentityZeroScale(kind) ==
  IF kind = "rotation" THEN <<0, 0, 0, V(1)>> ELSE <<0, 0, 0>>
\* The value an empty component is filled with.
Identity(kind) ==
  IF kind = "translation" THEN <<0, 0, 0>>
  ELSE IF kind = "rotation" THEN <<0, 0, 0, V(1)>>
  ELSE <<V(1), V(1), V(1)>>

\* ------------------------------------------------- resampling (load)
\* (x * 100_000.0) as i32: x ticks are x * 100000 / TimeScale keys, truncated
\* toward zero; NaN casts to 0.
into_precision(x) ==
  IF x = NaN THEN 0 ELSE TruncDiv(x, TimeScale \div PrecisionFactor)

\* i as f32 * min_distance
GridStamp(i, min_distance) == IF i = 0 THEN 0 ELSE i * min_distance

\* current_percentile = i as f32 / (required_frames - 1) as f32, as a fraction.
Percentile(i, required_frames) ==
  IF required_frames = 1 THEN FracNaN ELSE Frac(i, required_frames - 1)
\* current_stamp = current_percentile * max_time
CurrentStamp(i, required_frames, max_time) ==
  FMulFrac(max_time, Percentile(i, required_frames))

\* raw_add: the first timestamp has key 0 and the last the key of max_time.
RawAdd(ts, max_time) ==
  /\ into_precision(ts[1]) = 0
  /\ into_precision(ts[Len(ts)]) = into_precision(max_time)

\* The frame of grid index i in the start-to-finish polyfill.
TwoKeyframe(kind, vals, i, required_frames, max_time) ==
  [stamp |-> CurrentStamp(i, required_frames, max_time),
   value |-> Lerp(kind, vals[1], vals[Len(vals)], Percentile(i, required_frames))]

\* found_frame_key: the first index whose key equals precise_stamp, 0 if none.
FoundFrameKey(ts, precise_stamp) ==
  LET hits == {j \in 1..Len(ts) : into_precision(ts[j]) = precise_stamp}
  IN IF hits = {} THEN 0 ELSE CHOOSE j \in hits : \A k \in hits : j <= k

\* leading_frame: the last index of the run of keys below precise_stamp
\* that starts the array; index 1 if the run is empty.
LeadingFrame(ts, precise_stamp) ==
  LET run == {j \in 1..Len(ts) : \A k \in 1..j : into_precision(ts[k]) < precise_stamp}
  IN IF run = {} THEN 1 ELSE CHOOSE j \in run : \A k \in run : k <= j

\* following_frame: the first index with a key above precise_stamp; the
\* leading frame if there is none.
FollowingFrame(ts, precise_stamp, leader) ==
  LET above == {j \in 1..Len(ts) : into_precision(ts[j]) > precise_stamp}
  IN IF above = {} THEN leader ELSE CHOOSE j \in above : \A k \in above : j <= k

\* The interpolation between the leading and the following frame.
LerpFrames(kind, ts, vals, current_stamp, leader, follower, scale, shifted_stamp) ==
  [stamp |-> current_stamp,
   value |-> Lerp(kind, vals[leader], vals[follower], Frac(shifted_stamp, scale))]
\* The interpolation with the grid time not shifted to the leading frame.
InterpolatedUnshifted(kind, ts, vals, current_stamp, leader, follower) ==
  LerpFrames(kind, ts, vals, current_stamp, leader, follower,
             ts[follower] - ts[leader], current_stamp)
Interpolated(kind, ts, vals, current_stamp, leader, follower) ==
  LerpFrames(kind, ts, vals, current_stamp, leader, follower,
             ts[follower] - ts[leader], current_stamp - ts[leader])

\* The fallback for key 0 taking the first keyframe and not the second.
MissingTakesFirst(kind, ts, vals, current_stamp, precise_stamp, leader) ==
  IF precise_stamp = 0 THEN [stamp |-> current_stamp, value |-> vals[1]]
  ELSE Interpolated(kind, ts, vals, current_stamp, leader,
                    FollowingFrame(ts, precise_stamp, leader))
\* The frame for a grid point without a source keyframe of its key.
Missing(kind, ts, vals, current_stamp, precise_stamp, leader) ==
  IF precise_stamp = 0 THEN [stamp |-> current_stamp, value |-> vals[2]]
  ELSE Interpolated(kind, ts, vals, current_stamp, leader,
                    FollowingFrame(ts, precise_stamp, leader))

\* The frame for a grid point, given found_frame_key.
Lookup(kind, ts, vals, current_stamp, precise_stamp, key) ==
  IF key # 0 THEN [stamp |-> ts[key], value |-> vals[key]]
  ELSE Missing(kind, ts, vals, current_stamp, precise_stamp,
               LeadingFrame(ts, precise_stamp))

\* The frame of grid index i in the brute-force branch.
GeneralAt(kind, ts, vals, current_stamp, precise_stamp) ==
  Lookup(kind, ts, vals, current_stamp, precise_stamp, FoundFrameKey(ts, precise_stamp))
GeneralStamp(kind, ts, vals, current_stamp) ==
  GeneralAt(kind, ts, vals, current_stamp, into_precision(current_stamp))
GeneralFrame(kind, ts, vals, i, required_frames, max_time) ==
  GeneralStamp(kind, ts, vals, CurrentStamp(i, required_frames, max_time))

\* The polyfill with the single-keyframe branch filling as the empty one does:
\* a lone keyframe is not broadcast.
FrameWithoutSingle(kind, ts, vals, i, required_frames, max_time, min_distance) ==
  IF ts = <<>> THEN [stamp |-> GridStamp(i, min_distance), value |-> Identity(kind)]
  ELSE IF Len(ts) = 1 THEN [stamp |-> GridStamp(i, min_distance), value |-> Identity(kind)]
  ELSE IF RawAdd(ts, max_time) /\ Len(ts) = 2
       THEN TwoKeyframe(kind, vals, i, required_frames, max_time)
  ELSE GeneralFrame(kind, ts, vals, i, required_frames, max_time)
\* The frame of grid index i of a component that is not copied verbatim.
Frame(kind, ts, vals, i, required_frames, max_time, min_distance) ==
  IF ts = <<>> THEN [stamp |-> GridStamp(i, min_distance), value |-> Identity(kind)]
  ELSE IF Len(ts) = 1 THEN [stamp |-> GridStamp(i, min_distance), value |-> vals[1]]
  ELSE IF RawAdd(ts, max_time) /\ Len(ts) = 2
       THEN TwoKeyframe(kind, vals, i, required_frames, max_time)
  ELSE GeneralFrame(kind, ts, vals, i, required_frames, max_time)

\* The timestamp array and the value array of a sequence of frames.
Unzip(frames) == [ts |-> [i \in DOMAIN frames |-> frames[i].stamp],
                  vals |-> [i \in DOMAIN frames |-> frames[i].value]]

\* The polyfill whose verbatim copy takes the timestamps but repeats the
\* first value.
PolyfillCopyStampsOnly(kind, ts, vals, required_frames, max_time, min_distance) ==
  IF Len(ts) >= 2 /\ RawAdd(ts, max_time) /\ Len(ts) = required_frames
  THEN [ts |-> ts, vals |-> [i \in DOMAIN vals |-> vals[1]]]
  ELSE Unzip([i \in 1..required_frames |->
                Frame(kind, ts, vals, i - 1, required_frames, max_time, min_distance)])
\* The frames of one component (translation, rotation or scale) of one node
\* on the grid of required_frames frames: the polyfill branches of load.
Polyfill(kind, ts, vals, required_frames, max_time, min_distance) ==
  IF Len(ts) >= 2 /\ RawAdd(ts, max_time) /\ Len(ts) = required_frames
  THEN [ts |-> ts, vals |-> vals]
  ELSE Unzip([i \in 1..required_frames |->
                Frame(kind, ts, vals, i - 1, required_frames, max_time, min_distance)])

\* The two length checks after the polyfill (panic!).
Checked(out, required_frames) ==
  IF Len(out.ts) # Len(out.vals) \/ Len(out.ts) # required_frames
  THEN [status |-> "panic", ts |-> out.ts, vals |-> out.vals]
  ELSE [status |-> "ok", ts |-> out.ts, vals |-> out.vals]

\* One component of one node: the equality check before the polyfill
\* (return Err), the polyfill, the length checks.
ResampleComponent(kind, ts, vals, required_frames, max_time, min_distance) ==
  IF Len(ts) # Len(vals) THEN [status |-> "err", ts |-> <<>>, vals |-> <<>>]
  ELSE Checked(Polyfill(kind, ts, vals, required_frames, max_time, min_distance),
               required_frames)

\* The resampled record of a node and how the loop body ended: with the
\* first Err or panic of the three components, in order, if there is one.
Assemble(t, r, s) ==
  [status |-> IF t.status # "ok" THEN t.status
              ELSE IF r.status # "ok" THEN r.status
              ELSE s.status,
   channel |-> [translations |-> t.vals, translation_timestamps |-> t.ts,
                rotations |-> r.vals, rotation_timestamps |-> r.ts,
                scales |-> s.vals, scale_timestamps |-> s.ts,
                weights |-> <<>>, weight_timestamps |-> <<>>]]

\* The body of the loop over bone_animations for one node record.
ResampleRecord(animation, required_frames, max_time, min_distance) ==
  Assemble(
    ResampleComponent("translation", animation.translation_timestamps,
      animation.translations, required_frames, max_time, min_distance),
    ResampleComponent("rotation", animation.rotation_timestamps,
      animation.rotations, required_frames, max_time, min_distance),
    ResampleComponent("scale", animation.scale_timestamps,
      animation.scales, required_frames, max_time, min_distance))

\* ------------------------------------------------- the file (load)
\* The most primitives a model of the enumerated files has.
MaxPrimitives == 2

\* A primitive as the skinned check reads it.
PrimitiveFlags == [has_joints : BOOLEAN, has_weights : BOOLEAN]
RECURSIVE PrimitiveLists(_)
PrimitiveLists(n) ==
  IF n = 0 THEN {<<>>}
  ELSE PrimitiveLists(n - 1)
         \cup {Append(l, p) : l \in {k \in PrimitiveLists(n - 1) : Len(k) = n - 1},
                              p \in PrimitiveFlags}

\* What can be wrong with the file before its scenes are looked at: the path
\* does not exist, it has no file name, File::open fails, the document does
\* not parse, its buffers cannot be imported.
Faults == {"missing", "no_file_name", "unreadable", "bad_document", "bad_buffers"}
\* The files load is called on: `scenes` counts the scenes of the document,
\* `primitives` lists the primitives Model::load collects from the first.
Assets ==
  {[fault |-> f, scenes |-> 1, primitives |-> <<[has_joints |-> TRUE, has_weights |-> TRUE]>>] :
     f \in Faults}
    \cup {[fault |-> "none", scenes |-> 0, primitives |-> <<>>]}
    \cup {[fault |-> "none", scenes |-> 1, primitives |-> l] : l \in PrimitiveLists(MaxPrimitives)}

file_name_from_path(a) ==
  IF a.fault = "missing" THEN "err"
  ELSE IF a.fault = "no_file_name" THEN "err"
  ELSE "ok"
read_path_to_buf_read(a) == IF a.fault = "unreadable" THEN "err" ELSE "ok"

\* The preamble without the check for a first primitive.
PreambleWithoutPrimitiveCheck(a) ==
  IF file_name_from_path(a) # "ok" THEN "err"
  ELSE IF read_path_to_buf_read(a) # "ok" THEN "err"
  ELSE IF a.fault = "bad_document" THEN "err"
  ELSE IF a.fault = "bad_buffers" THEN "err"
  ELSE IF a.scenes = 0 THEN "err"
  ELSE "ok"
\* load before the skinned check: "ok", or "err" at the first `?` or
\* `return Err` reached.
Preamble(a) ==
  IF file_name_from_path(a) # "ok" THEN "err"
  ELSE IF read_path_to_buf_read(a) # "ok" THEN "err"
  ELSE IF a.fault = "bad_document" THEN "err"
  ELSE IF a.fault = "bad_buffers" THEN "err"
  ELSE IF a.scenes = 0 THEN "err"
  ELSE IF a.primitives = <<>> THEN "err"
  ELSE "ok"

\* The loop over the primitives without its break: the last primitive decides.
RECURSIVE SkinnedWithoutBreak(_, _, _)
SkinnedWithoutBreak(primitives, i, skinned) ==
  IF i > Len(primitives) THEN skinned
  ELSE SkinnedWithoutBreak(primitives, i + 1,
                           primitives[i].has_joints /\ primitives[i].has_weights)
\* The loop over the primitives from index i on, is_skinned so far.
RECURSIVE SkinnedFrom(_, _, _)
SkinnedFrom(primitives, i, skinned) ==
  IF i > Len(primitives) THEN skinned
  ELSE IF primitives[i].has_joints /\ primitives[i].has_weights
       THEN SkinnedFrom(primitives, i + 1, TRUE)
       ELSE FALSE
LastPrimitiveDecides(primitives) == SkinnedWithoutBreak(primitives, 1, FALSE)
is_skinned(primitives) == SkinnedFrom(primitives, 1, FALSE)

\* ------------------------------------------- geometry (Primitive)
\* The most vertices and the most indices of an enumerated primitive.
MaxVertices == 3
MaxIndices == 4

Modes == {"Points", "Lines", "LineLoop", "LineStrip",
          "Triangles", "TriangleStrip", "TriangleFan"}

\* Vertex k (from 0) of a primitive of n vertices: distinct values.
VertexOf(k) == 10 + k
VerticesOf(n) == [k \in 1..n |-> VertexOf(k - 1)]
RECURSIVE IndexLists(_, _)
\* The index lists of at most len entries, each naming one of n vertices.
IndexLists(len, n) ==
  IF len = 0 THEN {<<>>}
  ELSE IndexLists(len - 1, n)
         \cup {Append(l, k) : l \in {m \in IndexLists(len - 1, n) : Len(m) = len - 1},
                              k \in 0..(n - 1)}
\* The primitives the accessors are called on: every mode, with an index
\* list whose entries all name existing vertices, or with none.
Primitives ==
  UNION {{[mode |-> m, vertices |-> VerticesOf(n), indices |-> [some |-> TRUE, list |-> l]] :
            m \in Modes, l \in IndexLists(MaxIndices, n)} : n \in 0..MaxVertices}
    \cup {[mode |-> m, vertices |-> VerticesOf(n), indices |-> [some |-> FALSE, list |-> <<>>]] :
            m \in Modes, n \in 0..MaxVertices}

\* An access outside a Vec panics; OutOfBounds stands for its value.
OutOfBounds == 0 - 1
\* indices[i], i from 0.
IndexAt(indices, i) ==
  IF i >= 0 /\ i < Len(indices) THEN indices[i + 1] ELSE OutOfBounds
\* self.vertices[k + plus], k an entry of the index list.
VertexAt(vertices, k, plus) ==
  IF k = OutOfBounds THEN OutOfBounds
  ELSE IF k + plus < Len(vertices) THEN vertices[k + plus + 1] ELSE OutOfBounds
\* (0..self.vertices.len()).collect(), used when there is no index list.
EffectiveIndices(p) ==
  IF p.indices.some THEN p.indices.list ELSE [k \in 1..Len(p.vertices) |-> k - 1]

\* The result of an accessor that has pushed `items`: a panic if any access
\* was out of bounds.
OkOrPanic(items) ==
  IF \E j \in 1..Len(items) : \E c \in 1..Len(items[j]) : items[j][c] = OutOfBounds
  THEN [tag |-> "panic", items |-> <<>>, mode |-> "none"]
  ELSE [tag |-> "Ok", items |-> items, mode |-> "none"]
Panic == [tag |-> "panic", items |-> <<>>, mode |-> "none"]
\* A BadMode that names Triangles whatever the primitive's mode is.
BadModeDefault(mode) == [tag |-> "Err", items |-> <<>>, mode |-> "Triangles"]
BadMode(mode) == [tag |-> "Err", items |-> <<>>, mode |-> mode]

\* for i in (0..indices.len()).step_by(3)
TrianglesList(v, idx) ==
  OkOrPanic([j \in 1..((Len(idx) + 2) \div 3) |->
               <<VertexAt(v, IndexAt(idx, 3 * (j - 1)), 0),
                 VertexAt(v, IndexAt(idx, 3 * (j - 1) + 1), 0),
                 VertexAt(v, IndexAt(idx, 3 * (j - 1) + 2), 0)>>])
\* for i in 0..(indices.len() - 2): the subtraction overflows below 2
\* indices (a panic, or a wrapped bound and an access out of bounds).
TriangleStripList(v, idx) ==
  IF Len(idx) < 2 THEN Panic
  ELSE OkOrPanic([j \in 1..(Len(idx) - 2) |->
                    <<VertexAt(v, IndexAt(idx, j - 1), (j - 1) % 2),
                      VertexAt(v, IndexAt(idx, (j - 1) + 1 - ((j - 1) % 2)), 0),
                      VertexAt(v, IndexAt(idx, (j - 1) + 2), 0)>>])
\* for i in 1..(indices.len() - 1): the subtraction overflows without indices.
TriangleFanList(v, idx) ==
  IF Len(idx) < 1 THEN Panic
  ELSE OkOrPanic([j \in 1..(Len(idx) - 2) |->
                    <<VertexAt(v, IndexAt(idx, 0), 0),
                      VertexAt(v, IndexAt(idx, j), 0),
                      VertexAt(v, IndexAt(idx, j + 1), 0)>>])

\* Primitive::triangles
triangles(p) ==
  IF p.mode = "Triangles" THEN TrianglesList(p.vertices, EffectiveIndices(p))
  ELSE IF p.mode = "TriangleStrip" THEN TriangleStripList(p.vertices, EffectiveIndices(p))
  ELSE IF p.mode = "TriangleFan" THEN TriangleFanList(p.vertices, EffectiveIndices(p))
  ELSE BadMode(p.mode)

\* for i in (0..indices.len()).step_by(2)
LinesList(v, idx) ==
  [j \in 1..((Len(idx) + 1) \div 2) |->
     <<VertexAt(v, IndexAt(idx, 2 * (j - 1)), 0),
       VertexAt(v, IndexAt(idx, 2 * (j - 1) + 1), 0)>>]
\* for i in 0..(indices.len() - 1)
LineStripList(v, idx) ==
  [j \in 1..(Len(idx) - 1) |->
     <<VertexAt(v, IndexAt(idx, j - 1), 0), VertexAt(v, IndexAt(idx, j), 0)>>]
\* The closing line of a LineLoop.
ClosingLine(v, idx) ==
  <<VertexAt(v, IndexAt(idx, 0), 0), VertexAt(v, IndexAt(idx, Len(idx) - 1), 0)>>

\* Primitive::lines
lines(p) ==
  IF p.mode = "Lines" THEN OkOrPanic(LinesList(p.vertices, EffectiveIndices(p)))
  ELSE IF p.mode \in {"LineStrip", "LineLoop"}
  THEN IF Len(EffectiveIndices(p)) < 1 THEN Panic
       ELSE IF p.mode = "LineLoop"
       THEN OkOrPanic(Append(LineStripList(p.vertices, EffectiveIndices(p)),
                             ClosingLine(p.vertices, EffectiveIndices(p))))
       ELSE OkOrPanic(LineStripList(p.vertices, EffectiveIndices(p)))
  ELSE BadMode(p.mode)

\* Primitive::points
points(p) ==
  IF p.mode = "Points" THEN [tag |-> "Ok", items |-> p.vertices, mode |-> "none"]
  ELSE BadMode(p.mode)

\* ------------------------------------------------------- state machine
VARIABLES
  pc,                         \* where load is: "grab", "timing", "resample", "done"
  clip,                       \* the channels of the first clip read so far
  bone_animations,            \* grab_animations' mapping, node id -> record
  timing,                     \* [min_time, max_time, min_distance]
  required_frames,
  finalized_bone_animations,  \* node id -> resampled record
  outcome,                    \* "running", "ok" (Ok), "err" (Err), "panic"
  gltf,                       \* the MinetestGLTF returned: [bone_animations, is_animated, model]
  asset,                      \* the file load is given: [fault, scenes, primitives]
  primitive,                  \* the Primitive an accessor is called on
  called,                     \* the accessor called: "triangles", "lines", "points"
  returned                    \* what it returned: Ok(items), Err(BadMode), or a panic

vars == <<pc, clip, bone_animations, timing, required_frames,
          finalized_bone_animations, outcome, gltf, asset, primitive, called, returned>>
\* The variables of load, and those of a call of an accessor of Primitive.
loadVars == <<pc, clip, bone_animations, timing, required_frames,
              finalized_bone_animations, outcome, gltf, asset>>
primitiveVars == <<primitive, called, returned>>
NotCalled == [tag |-> "none", items |-> <<>>, mode |-> "none"]
\* A primitive without vertices and without an index list.
DefaultPrimitive == [mode |-> "Triangles", vertices |-> <<>>,
                     indices |-> [some |-> FALSE, list |-> <<>>]]

NoTiming == [min_time |-> 0, max_time |-> 0, min_distance |-> F32_MAX]
\* MinetestGLTF::new: no bone animation yet.
NewGLTF == [bone_animations |-> [some |-> FALSE, map |-> EmptyMap], is_animated |-> FALSE,
            model |-> [some |-> FALSE, primitives |-> <<>>]]

\* load is called with the path of some file.
Init ==
  /\ pc = "open"
  /\ asset \in Assets
  /\ primitive = DefaultPrimitive
  /\ called = "none"
  /\ returned = NotCalled
  /\ clip = <<>>
  /\ bone_animations = EmptyMap
  /\ timing = NoTiming
  /\ required_frames = 0
  /\ finalized_bone_animations = EmptyMap
  /\ outcome = "running"
  /\ gltf = NewGLTF

\* load up to the branch on is_skinned: an Err return of the preamble, the
\* Ok return of a model that is not skinned, or the call of grab_animations.
Open ==
  /\ pc = "open"
  /\ IF Preamble(asset) # "ok"
     THEN /\ outcome' = "err"
          /\ pc' = "done"
          /\ gltf' = gltf
     ELSE IF is_skinned(asset.primitives)
     THEN /\ outcome' = outcome
          /\ pc' = "grab"
          /\ gltf' = gltf
     ELSE /\ outcome' = "ok"
          /\ pc' = "done"
          /\ gltf' = [gltf EXCEPT !.is_animated = FALSE,
                                   !.model = [some |-> TRUE, primitives |-> asset.primitives]]
  /\ UNCHANGED <<clip, bone_animations, timing, required_frames,
                 finalized_bone_animations, asset, primitiveVars>>

\* grab_animations reads the next channel of the first clip.
GrabChannel ==
  /\ pc = "grab"
  /\ UNCHANGED <<asset, primitiveVars>>
  /\ Len(clip) < MaxChannels
  /\ \E ch \in Channels :
       LET r == ExtractChannel(bone_animations, ch)
       IN /\ clip' = Append(clip, ch)
          /\ bone_animations' = r.channels
          /\ pc' = IF r.brk THEN "timing" ELSE "grab"
  /\ UNCHANGED <<timing, required_frames, finalized_bone_animations, outcome, gltf>>

\* The clip has no further channel (or there is no animation at all):
\* grab_animations returns.
GrabEnd ==
  /\ pc = "grab"
  /\ UNCHANGED <<asset, primitiveVars>>
  /\ pc' = "timing"
  /\ UNCHANGED <<clip, bone_animations, timing, required_frames,
                 finalized_bone_animations, outcome, gltf>>

\* The timing scan and required_frames.  The `+ 1` overflows on usize::MAX:
\* a panic with overflow checks (debug builds), a wrap to 0 without.
ComputeTiming ==
  /\ pc = "timing"
  /\ UNCHANGED <<asset, primitiveVars>>
  /\ LET w == TimingOf(bone_animations)
         q == FrameQuotient(w.max_time, w.min_distance)
     IN /\ timing' = w
        /\ IF q = USIZE_MAX
           THEN \/ /\ required_frames' = 0
                   /\ pc' = "resample"
                   /\ outcome' = outcome
                \/ /\ required_frames' = 0
                   /\ pc' = "done"
                   /\ outcome' = "panic"
           ELSE /\ required_frames' = RequiredFrames(w.max_time, w.min_distance)
                /\ pc' = "resample"
                /\ outcome' = outcome
  /\ UNCHANGED <<clip, bone_animations, finalized_bone_animations, gltf>>

\* One iteration of the loop over bone_animations (AHashMap order: any).
ResampleNode ==
  /\ pc = "resample"
  /\ UNCHANGED <<asset, primitiveVars>>
  /\ \E id \in DOMAIN bone_animations \ DOMAIN finalized_bone_animations :
       LET r == ResampleRecord(bone_animations[id], required_frames,
                               timing.max_time, timing.min_distance)
       IN IF r.status = "ok"
          THEN /\ finalized_bone_animations' =
                    [n \in DOMAIN finalized_bone_animations \cup {id} |->
                       IF n = id THEN r.channel ELSE finalized_bone_animations[n]]
               /\ UNCHANGED <<pc, outcome>>
          ELSE /\ pc' = "done"
               /\ outcome' = r.status
               /\ UNCHANGED finalized_bone_animations
  /\ UNCHANGED <<clip, bone_animations, timing, required_frames, gltf>>

\* The finalized data stored before the loop over the nodes has ended.
FinishEarly ==
  /\ pc = "resample"
  /\ UNCHANGED <<asset, primitiveVars>>
  /\ gltf' = [bone_animations |-> [some |-> TRUE, map |-> finalized_bone_animations],
              is_animated |-> TRUE, model |-> [some |-> TRUE, primitives |-> asset.primitives]]
  /\ outcome' = "ok"
  /\ pc' = "done"
  /\ UNCHANGED <<clip, bone_animations, timing, required_frames, finalized_bone_animations>>
\* After the loop: the finalized data and the model are stored and load
\* returns Ok.
Finish ==
  /\ pc = "resample"
  /\ UNCHANGED <<asset, primitiveVars>>
  /\ DOMAIN finalized_bone_animations = DOMAIN bone_animations
  /\ gltf' = [bone_animations |-> [some |-> TRUE, map |-> finalized_bone_animations],
              is_animated |-> TRUE, model |-> [some |-> TRUE, primitives |-> asset.primitives]]
  /\ outcome' = "ok"
  /\ pc' = "done"
  /\ UNCHANGED <<clip, bone_animations, timing, required_frames, finalized_bone_animations>>

Next == Open \/ GrabChannel \/ GrabEnd \/ ComputeTiming \/ ResampleNode \/ Finish

Spec == Init /\ [][Next]_vars

\* ---------------------------------------- the accessors of Primitive
\* Some primitive, before any accessor is called on it; load is not running.
PrimitiveInit ==
  /\ primitive \in Primitives
  /\ called = "none"
  /\ returned = NotCalled
  /\ pc = "open"
  /\ clip = <<>>
  /\ bone_animations = EmptyMap
  /\ timing = NoTiming
  /\ required_frames = 0
  /\ finalized_bone_animations = EmptyMap
  /\ outcome = "running"
  /\ gltf = NewGLTF
  /\ asset = [fault |-> "none", scenes |-> 0, primitives |-> <<>>]

CallTriangles ==
  /\ called = "none"
  /\ called' = "triangles"
  /\ returned' = triangles(primitive)
  /\ UNCHANGED <<primitive, loadVars>>
CallLines ==
  /\ called = "none"
  /\ called' = "lines"
  /\ returned' = lines(primitive)
  /\ UNCHANGED <<primitive, loadVars>>
CallPoints ==
  /\ called = "none"
  /\ called' = "points"
  /\ returned' = points(primitive)
  /\ UNCHANGED <<primitive, loadVars>>

PrimitiveNext == CallTriangles \/ CallLines \/ CallPoints

PrimitiveSpec == PrimitiveInit /\ [][PrimitiveNext]_vars


\* ====================================================== properties
\* load took the skinned branch.
Skinned == pc # "open" /\ Preamble(asset) = "ok" /\ is_skinned(asset.primitives)
Extracted == Skinned /\ pc # "grab"
Timed == Skinned /\ pc \in {"resample", "done"}
Loaded == Skinned /\ pc = "done" /\ outcome = "ok"
Result == gltf.bone_animations.map

\* The four timestamp arrays of a record.
StampArrays(r) == {r.translation_timestamps, r.rotation_timestamps,
                   r.scale_timestamps, r.weight_timestamps}
\* The gaps between consecutive timestamps of an array.
Gaps(ts) == {ts[i + 1] - ts[i] : i \in 1..(Len(ts) - 1)}
AllStamps(m) == UNION {SeqRange(ts) : ts \in UNION {StampArrays(m[id]) : id \in DOMAIN m}}
AllGaps(m) == UNION {Gaps(ts) : ts \in UNION {StampArrays(m[id]) : id \in DOMAIN m}}

\* Two times equal up to one precision key.
Near(a, b) == IsFinite(a) /\ IsFinite(b) /\ Abs(a - b) <= SubKeyTicks

\* C1: after a successful load every node of the result has its six
\* translation/rotation/scale value and timestamp arrays of one length, the
\* shared required_frames, which is the quotient max_time / min_distance
\* rounded to the nearest integer, plus one (for a positive min_distance).
C1_UniformLength ==
  Loaded =>
    /\ \A id \in DOMAIN Result :
         LET c == Result[id]
         IN /\ Len(c.translations) = required_frames
            /\ Len(c.translation_timestamps) = required_frames
            /\ Len(c.rotations) = required_frames
            /\ Len(c.rotation_timestamps) = required_frames
            /\ Len(c.scales) = required_frames
            /\ Len(c.scale_timestamps) = required_frames
    /\ (timing.min_distance > 0 /\ timing.min_distance < F32_MAX) =>
         /\ required_frames >= 1
         /\ 2 * Abs(timing.max_time - (required_frames - 1) * timing.min_distance)
              <= timing.min_distance
    /\ timing.min_distance = F32_MAX => required_frames = 1

\* C1 witness: a loaded rig of 11 frames with a node whose translation came
\* from two keyframes and whose rotation had none.
C1_Witness ==
  /\ Loaded
  /\ required_frames = 11
  /\ \E id \in DOMAIN Result :
       /\ Len(bone_animations[id].translations) = 2
       /\ bone_animations[id].rotations = <<>>
       /\ Len(Result[id].translations) = 11
       /\ Len(Result[id].rotation_timestamps) = 11


\* The time of grid index i on the grid from 0 to max_time.
GridTime(i) ==
  IF required_frames = 1 THEN 0
  ELSE RoundDiv(i * timing.max_time, required_frames - 1)
OnGrid(stamps) ==
  /\ Len(stamps) = required_frames
  /\ \A i \in 1..required_frames : Near(stamps[i], GridTime(i - 1))

\* C2: after a successful load the translation, rotation and scale
\* timestamps of every node are the shared grid i * max_time /
\* (required_frames - 1), up to one precision key.
C2_GridIdentity ==
  Loaded =>
    \A id \in DOMAIN Result :
      /\ OnGrid(Result[id].translation_timestamps)
      /\ OnGrid(Result[id].rotation_timestamps)
      /\ OnGrid(Result[id].scale_timestamps)

\* The rig of three unevenly spaced translation keyframes (0, 0.3, 1.0) on
\* one node: four frames, the empty rotation stamped 0, 0.3, 0.6, 0.9.
C2_Seen ==
  /\ Loaded
  /\ required_frames = 4
  /\ \E id \in DOMAIN Result :
       /\ bone_animations[id].translation_timestamps = <<0, T(3), T(10)>>
       /\ Result[id].rotation_timestamps = <<0, T(3), T(6), T(9)>>
       /\ Result[id].translation_timestamps[4] = T(10)

\* The positive gaps of the rig and its timestamps in good order.
WellTimed(m) == \A g \in AllGaps(m) : g > 0
SmallestGap(m) == CHOOSE g \in AllGaps(m) : \A h \in AllGaps(m) : g <= h
LatestStamp(m) == CHOOSE t \in AllStamps(m) : \A u \in AllStamps(m) : u <= t

\* The rig of the end-to-end scenario: a node with the two translation
\* keyframes (0,0,0) at 0.0 and (10,0,0) at 1.0, a smallest gap of 0.1
\* somewhere in the rig, nothing later than 1.0.
EndToEndRig(id) ==
  /\ id \in DOMAIN bone_animations
  /\ bone_animations[id].translation_timestamps = <<0, T(10)>>
  /\ bone_animations[id].translations = <<<<0, 0, 0>>, <<V(10), 0, 0>>>>
  /\ WellTimed(bone_animations)
  /\ SmallestGap(bone_animations) = T(1)
  /\ LatestStamp(bone_animations) = T(10)

EndToEndResult(id) ==
  /\ required_frames = 11
  /\ id \in DOMAIN Result
  /\ Len(Result[id].translations) = 11
  /\ Len(Result[id].translation_timestamps) = 11
  /\ \A i \in 0..10 :
       /\ Result[id].translations[i + 1] = <<V(i), 0, 0>>
       /\ Near(Result[id].translation_timestamps[i + 1], T(i))

\* C3: for the end-to-end rig, whichever channel of the rig supplies the
\* 0.1 gap, load succeeds with 11 frames and translations (i,0,0) at 0.1 i.
C3_EndToEnd ==
  pc = "done" => \A id \in Nodes : EndToEndRig(id) => (outcome = "ok" /\ EndToEndResult(id))

\* The same with the 0.1 gap in a translation, rotation or weight
\* timestamp array (one that the timing scan reads).
C3_GapScanned ==
  pc = "done" =>
    \A id \in Nodes :
      (/\ EndToEndRig(id)
       /\ \E n \in DOMAIN bone_animations :
            T(1) \in Gaps(bone_animations[n].translation_timestamps)
                       \cup Gaps(bone_animations[n].rotation_timestamps)
                       \cup Gaps(bone_animations[n].weight_timestamps))
        => (outcome = "ok" /\ EndToEndResult(id))
C3_Seen == pc = "done" /\ \E id \in Nodes : EndToEndRig(id) /\ EndToEndResult(id)

\* C4: once the timing scan has run, max_time is at least every timestamp
\* of the four timestamp arrays of every record, and min_distance at most
\* every positive gap between consecutive timestamps of one array.
C4_TimingCoversAll ==
  Timed =>
    /\ \A t \in AllStamps(bone_animations) : timing.max_time >= t
    /\ \A g \in AllGaps(bone_animations) : g > 0 => timing.min_distance <= g

\* The same for the translation, rotation and weight timestamps only.
StampArraysScanned(r) == {r.translation_timestamps, r.rotation_timestamps, r.weight_timestamps}
C4_ScannedOnly ==
  Timed =>
    \A id \in DOMAIN bone_animations : \A ts \in StampArraysScanned(bone_animations[id]) :
      /\ \A t \in SeqRange(ts) : timing.max_time >= t
      /\ \A g \in Gaps(ts) : g > 0 => timing.min_distance <= g

\* C5: load never panics.
C5_NoPanic == outcome # "panic"

\* C6: a min_distance that is zero or negative ends load with an error.
C6_DegenerateIsError ==
  (pc = "done" /\ timing.min_distance <= 0) => outcome = "err"


\* Two channels of the clip that animate the same component of one node.
SameTarget(i, j) ==
  /\ i < j
  /\ KindOf(clip[i]) # "none"
  /\ KindOf(clip[i]) = KindOf(clip[j])
  /\ clip[i].node = clip[j].node

\* C7: if two channels of the clip target the same node and the same
\* component kind, whatever their keyframe counts, the extractor returns
\* the empty mapping.
C7_DuplicateIsFatal ==
  Extracted =>
    ((\E i, j \in 1..Len(clip) : SameTarget(i, j)) => bone_animations = EmptyMap)

\* The same when the earlier of the two channels stored at least one value.
C7_NonEmptyDuplicate ==
  Extracted =>
    ((\E i, j \in 1..Len(clip) : SameTarget(i, j) /\ clip[i].vals # <<>>)
       => bone_animations = EmptyMap)
C7_Seen ==
  /\ Extracted
  /\ \E i, j \in 1..Len(clip) : SameTarget(i, j) /\ clip[i].vals # <<>>
  /\ ~UnreadableInputs(clip[2]) /\ ~NotImplemented(clip[2].outputs)
  /\ bone_animations = EmptyMap

\* A translation, rotation or scale channel whose output array and timestamp
\* array differ in length.
Mismatched(ch) ==
  /\ ch.inputs = "Standard"
  /\ KindOf(ch) \in {"translation", "rotation", "scale"}
  /\ Len(ch.vals) # Len(ch.ts)

\* C8: a translation, rotation or scale channel whose output length differs
\* from its timestamp length leaves the extractor's mapping empty, nothing
\* is resampled, and the mapping load stores is empty.
C8_MismatchClearsAll ==
  (Extracted /\ \E i \in 1..Len(clip) : Mismatched(clip[i])) =>
    /\ bone_animations = EmptyMap
    /\ finalized_bone_animations = EmptyMap
    /\ pc = "done" => (outcome = "ok" /\ Result = EmptyMap)

\* C8 witness: load has returned for a clip whose first channel was stored
\* and whose second channel has three values for two timestamps.
C8_Witness ==
  /\ pc = "done"
  /\ Len(clip) = 2
  /\ ~Mismatched(clip[1]) /\ clip[1].outputs = "RotationsF32" /\ clip[1].vals # <<>>
  /\ Mismatched(clip[2]) /\ Len(clip[2].vals) = 3 /\ Len(clip[2].ts) = 2
  /\ bone_animations = EmptyMap
  /\ Result = EmptyMap

\* A channel of unsupported shape: sparse or unreadable timestamps, or no
\* output payload.
Unsupported(ch) == ch.inputs \in {"Sparse", "None"} \/ ch.outputs = "None"

\* C9: a channel of unsupported shape is the last channel read, and the
\* mapping returned is empty.
C9_UnsupportedClearsAll ==
  Extracted =>
    \A i \in 1..Len(clip) :
      Unsupported(clip[i]) => (i = Len(clip) /\ bone_animations = EmptyMap)

\* C9 witness: a stored channel followed by one with sparse timestamps.
C9_Witness ==
  /\ Extracted
  /\ Len(clip) = 2
  /\ ~Unsupported(clip[1]) /\ clip[1].outputs = "Translations" /\ clip[1].vals # <<>>
  /\ Len(clip[1].vals) = Len(clip[1].ts)
  /\ clip[2].inputs = "Sparse"
  /\ bone_animations = EmptyMap

\* A clip of rotation and morph-weight channels only, free of every other
\* fault: readable, lengths matching, no two on one component of one node.
RotationsAndWeightsOnly ==
  /\ \A i \in 1..Len(clip) :
       /\ clip[i].inputs = "Standard"
       /\ KindOf(clip[i]) \in {"rotation", "weights"}
       /\ KindOf(clip[i]) = "rotation" => Len(clip[i].vals) = Len(clip[i].ts)
  /\ \A i, j \in 1..Len(clip) : ~SameTarget(i, j)
\* The channel's values are in its node's record.
Kept(ch) ==
  /\ ch.node \in DOMAIN bone_animations
  /\ KindOf(ch) = "rotation" =>
       /\ bone_animations[ch.node].rotations = ch.vals
       /\ bone_animations[ch.node].rotation_timestamps = ch.ts
  /\ KindOf(ch) = "weights" =>
       /\ bone_animations[ch.node].weights = ch.vals
       /\ bone_animations[ch.node].weight_timestamps = ch.ts

\* C10 as claimed: rotation and weight channels of every encoding (8 and
\* 16-bit integers, 32-bit floats) are stored in their node's record.
C10_AllEncodingsStored ==
  (Extracted /\ RotationsAndWeightsOnly) => \A i \in 1..Len(clip) : Kept(clip[i])

\* C10 amended: rotation and weight channels are stored when they are
\* 32-bit floats; a channel encoded as 8 or 16-bit integers is the last
\* one read and leaves the mapping empty.
C10_FloatOnly ==
  (Extracted /\ RotationsAndWeightsOnly) =>
    IF \A i \in 1..Len(clip) : clip[i].outputs \in {"RotationsF32", "WeightsF32"}
    THEN \A i \in 1..Len(clip) : Kept(clip[i])
    ELSE /\ bone_animations = EmptyMap
         /\ clip[Len(clip)].outputs \in IntRotations \cup IntWeights

\* C10 witness: a stored float rotation followed by 16-bit weights, and
\* nothing left.
C10_Witness ==
  /\ Extracted
  /\ Len(clip) = 2
  /\ clip[1].outputs = "RotationsF32" /\ clip[1].vals # <<>>
  /\ Len(clip[1].vals) = Len(clip[1].ts)
  /\ clip[2].outputs = "WeightsI16"
  /\ bone_animations = EmptyMap


\* load has ended without resampling every extracted node.
ResamplerAborted == pc = "done" /\ DOMAIN finalized_bone_animations # DOMAIN bone_animations

\* C11: a fatal condition inside the resampler aborts only the animation:
\* load still returns Ok, with the model present and no bone animation.
C11_AbortsOnlyAnimation ==
  ResamplerAborted =>
    /\ outcome = "ok"
    /\ gltf.model.some
    /\ Result = EmptyMap

\* The resampler's own Err return (unequal lengths) is never taken: the
\* extractor has already refused every such channel.
C11_ErrNeverReturned == outcome = "err" => Preamble(asset) = "err"

\* C12: whenever load stores a resampled mapping, its keys are the keys of
\* the extractor's mapping and every record is resampled in full; when
\* resampling fails, no resampled record is stored.
C12_AllOrNothing ==
  /\ gltf.bone_animations.some =>
       /\ DOMAIN Result = DOMAIN bone_animations
       /\ \A id \in DOMAIN Result :
            /\ Len(Result[id].translations) = required_frames
            /\ Len(Result[id].rotations) = required_frames
            /\ Len(Result[id].scales) = required_frames
  /\ (pc = "done" /\ outcome # "ok") =>
       (~gltf.bone_animations.some /\ Result = EmptyMap)

\* C12 witness: load has stored the resampled records of two nodes.
C12_Witness ==
  /\ Loaded
  /\ gltf.bone_animations.some
  /\ Cardinality(DOMAIN bone_animations) = 2
  /\ DOMAIN Result = DOMAIN bone_animations
  /\ required_frames >= 2

\* C13: the 'is animated' signal of a loaded asset is true exactly when its
\* bone-animation mapping is non-empty.
C13_AnimatedIffNonEmpty ==
  Loaded => (gltf.is_animated <=> Result # EmptyMap)

\* With a non-empty mapping the signal is true.
C13_NonEmptyIsAnimated == (Loaded /\ Result # EmptyMap) => gltf.is_animated


\* Every one of the required_frames slots of a resampled array holds v.
Filled(vals, v) ==
  /\ Len(vals) = required_frames
  /\ \A i \in 1..Len(vals) : vals[i] = v

\* C14: a component without source keyframes is resampled to the identity
\* value in every grid slot: (0,0,0) for translation, the identity
\* quaternion for rotation, (1,1,1) for scale.
C14_IdentityFill ==
  Loaded =>
    \A id \in DOMAIN Result :
      /\ bone_animations[id].translations = <<>> =>
           Filled(Result[id].translations, <<0, 0, 0>>)
      /\ bone_animations[id].rotations = <<>> =>
           Filled(Result[id].rotations, <<0, 0, 0, V(1)>>)
      /\ bone_animations[id].scales = <<>> =>
           Filled(Result[id].scales, <<V(1), V(1), V(1)>>)

\* C14 witness: a node with translation keyframes only, resampled onto a
\* grid of several frames.
C14_Witness ==
  /\ Loaded
  /\ required_frames >= 3
  /\ \E id \in DOMAIN Result :
       /\ Len(bone_animations[id].translations) >= 2
       /\ bone_animations[id].rotations = <<>>
       /\ bone_animations[id].scales = <<>>
       /\ Filled(Result[id].scales, <<V(1), V(1), V(1)>>)

\* C15: a component with exactly one source keyframe is resampled to that
\* keyframe's value in every grid slot, whatever the keyframe's timestamp.
C15_Broadcast ==
  Loaded =>
    \A id \in DOMAIN Result :
      /\ Len(bone_animations[id].translations) = 1 =>
           Filled(Result[id].translations, bone_animations[id].translations[1])
      /\ Len(bone_animations[id].rotations) = 1 =>
           Filled(Result[id].rotations, bone_animations[id].rotations[1])
      /\ Len(bone_animations[id].scales) = 1 =>
           Filled(Result[id].scales, bone_animations[id].scales[1])

\* C15 witness: a lone translation keyframe at t = 1.0, not the identity,
\* broadcast over a grid of several frames.
C15_Witness ==
  /\ Loaded
  /\ required_frames >= 3
  /\ \E id \in DOMAIN Result :
       /\ bone_animations[id].translation_timestamps = <<T(10)>>
       /\ bone_animations[id].translations[1] # <<0, 0, 0>>
       /\ Filled(Result[id].translations, bone_animations[id].translations[1])


\* The timestamps are the target grid itself: required_frames of them, from
\* 0 to max_time, min_distance apart.
OnExactGrid(ts) ==
  /\ Len(ts) >= 1
  /\ Len(ts) = required_frames
  /\ ts[1] = 0
  /\ ts[Len(ts)] = timing.max_time
  /\ \A i \in 1..(Len(ts) - 1) : ts[i + 1] - ts[i] = timing.min_distance

\* C16: a component whose source timestamps are the target grid itself is
\* resampled to its source value array and timestamp array, unchanged.
C16_RawAddIdempotent ==
  Loaded =>
    \A id \in DOMAIN Result :
      /\ OnExactGrid(bone_animations[id].translation_timestamps) =>
           /\ Result[id].translations = bone_animations[id].translations
           /\ Result[id].translation_timestamps = bone_animations[id].translation_timestamps
      /\ OnExactGrid(bone_animations[id].rotation_timestamps) =>
           /\ Result[id].rotations = bone_animations[id].rotations
           /\ Result[id].rotation_timestamps = bone_animations[id].rotation_timestamps
      /\ OnExactGrid(bone_animations[id].scale_timestamps) =>
           /\ Result[id].scales = bone_animations[id].scales
           /\ Result[id].scale_timestamps = bone_animations[id].scale_timestamps

\* C16 witness: three translation keyframes at 0, 0.5 and 1.0 s on a grid of
\* three frames half a second apart, returned as they are.
C16_Witness ==
  /\ Loaded
  /\ required_frames = 3
  /\ \E id \in DOMAIN Result :
       /\ bone_animations[id].translation_timestamps = <<0, T(5), T(10)>>
       /\ OnExactGrid(bone_animations[id].translation_timestamps)
       /\ Result[id].translations = bone_animations[id].translations


\* Two resampled values that stand for the same source value: equal, or for
\* rotations opposite quaternions (one rotation).
SameValue(kind, a, b) == a = b \/ (kind = "rotation" /\ a = Opposite(b))

\* A component with exactly two keyframes, the first with precision key 0
\* and the last with the precision key of max_time.
StartToFinish(ts) ==
  /\ Len(ts) = 2
  /\ into_precision(ts[1]) = 0
  /\ into_precision(ts[2]) = into_precision(timing.max_time)

\* The resampled array starts at the first source value and ends at the last.
Bounded(kind, out, vals) ==
  /\ Len(out) = required_frames
  /\ required_frames >= 1
  /\ SameValue(kind, out[1], vals[1])
  /\ SameValue(kind, out[required_frames], vals[2])

\* C17: a component with two keyframes spanning 0 to max_time is resampled
\* to its first source value at grid index 0 and to its last source value
\* at grid index required_frames - 1, for every required_frames.
C17_InterpolationBoundary ==
  Loaded =>
    \A id \in DOMAIN Result :
      /\ StartToFinish(bone_animations[id].translation_timestamps) =>
           Bounded("translation", Result[id].translations, bone_animations[id].translations)
      /\ StartToFinish(bone_animations[id].rotation_timestamps) =>
           Bounded("rotation", Result[id].rotations, bone_animations[id].rotations)
      /\ StartToFinish(bone_animations[id].scale_timestamps) =>
           Bounded("scale", Result[id].scales, bone_animations[id].scales)

\* The same on grids of two frames or more.
C17_FromTwoFrames ==
  (Loaded /\ required_frames >= 2) =>
    \A id \in DOMAIN Result :
      /\ StartToFinish(bone_animations[id].translation_timestamps) =>
           Bounded("translation", Result[id].translations, bone_animations[id].translations)
      /\ StartToFinish(bone_animations[id].rotation_timestamps) =>
           Bounded("rotation", Result[id].rotations, bone_animations[id].rotations)
      /\ StartToFinish(bone_animations[id].scale_timestamps) =>
           Bounded("scale", Result[id].scales, bone_animations[id].scales)


\* A component the brute-force branch resamples: two keyframes or more, and
\* neither copied verbatim nor filled from start to finish.
GeneralBranch(ts) ==
  /\ Len(ts) >= 2
  /\ ~(/\ into_precision(ts[1]) = 0
       /\ into_precision(ts[Len(ts)]) = into_precision(timing.max_time)
       /\ Len(ts) \in {2, required_frames})
TimeOrdered(ts) == \A j \in 1..(Len(ts) - 1) : ts[j] <= ts[j + 1]

\* The grid time t has the precision key of no source keyframe and lies
\* strictly between the source keyframes k and k + 1.
StrictlyInside(ts, t, k) ==
  /\ \A j \in 1..Len(ts) : into_precision(ts[j]) # into_precision(t)
  /\ ts[k] < t
  /\ t < ts[k + 1]

Between(x, a, b) == (a <= x /\ x <= b) \/ (b <= x /\ x <= a)
\* out is a + (b - a) * d / D in every component, to one unit of rounding,
\* and lies between a and b.
LinearAt(out, a, b, d, D) ==
  \A c \in 1..Len(a) :
    /\ IsFinite(out[c])
    /\ Abs((out[c] - a[c]) * D - (b[c] - a[c]) * d) <= D
    /\ Between(out[c], a[c], b[c])

\* Every grid slot inside a pair of keyframes holds their linear
\* interpolation.
LinearLookup(ts, vals, out) ==
  (GeneralBranch(ts) /\ TimeOrdered(ts)) =>
    \A i \in 1..required_frames : \A k \in 1..(Len(ts) - 1) :
      StrictlyInside(ts, GridTime(i - 1), k) =>
        LinearAt(out[i], vals[k], vals[k + 1], GridTime(i - 1) - ts[k], ts[k + 1] - ts[k])
\* Every grid slot inside a pair of rotation keyframes holds the normalized
\* interpolation towards the nearer of the two opposite quaternions.
NormalizedLookup(ts, vals, out) ==
  (GeneralBranch(ts) /\ TimeOrdered(ts)) =>
    \A i \in 1..required_frames : \A k \in 1..(Len(ts) - 1) :
      StrictlyInside(ts, GridTime(i - 1), k) =>
        /\ out[i] = QuatLerp(vals[k], vals[k + 1],
                             Frac(GridTime(i - 1) - ts[k], ts[k + 1] - ts[k]))
        /\ \A c \in 1..4 : Between(out[i][c], vals[k][c], vals[k + 1][c])
                             \/ Between(out[i][c], vals[k][c], 0 - vals[k + 1][c])

\* C18: in the brute-force branch a grid point with the key of no source
\* keyframe, strictly between the time-ordered keyframes k and k + 1, gets
\* the interpolation of their values at (t - t_k) / (t_{k+1} - t_k), which
\* lies between them: Vec3::lerp for translations and scales, Quat::lerp
\* (the linear interpolation as a unit quaternion) for rotations.
C18_GeneralLookup ==
  (Loaded /\ required_frames >= 2) =>
    \A id \in DOMAIN Result :
      /\ LinearLookup(bone_animations[id].translation_timestamps,
                      bone_animations[id].translations, Result[id].translations)
      /\ NormalizedLookup(bone_animations[id].rotation_timestamps,
                          bone_animations[id].rotations, Result[id].rotations)
      /\ LinearLookup(bone_animations[id].scale_timestamps,
                      bone_animations[id].scales, Result[id].scales)

\* C18 witness: translations A, B, C at t = 0, 0.3, 1.0 on a grid of eleven
\* frames: A at 0, a value strictly between B and C at 0.4, C at 1.0; and
\* a rotation resampled between two keyframes.
C18_Witness ==
  /\ Loaded
  /\ required_frames = 11
  /\ \E id \in DOMAIN Result :
       /\ bone_animations[id].translation_timestamps = <<0, T(3), T(10)>>
       /\ Result[id].translations[1] = bone_animations[id].translations[1]
       /\ Result[id].translations[11] = bone_animations[id].translations[3]
       /\ StrictlyInside(bone_animations[id].translation_timestamps, GridTime(4), 2)
       /\ Result[id].translations[5][1] > bone_animations[id].translations[2][1]
       /\ Result[id].translations[5][1] < bone_animations[id].translations[3][1]

\* A rotation resampled between two keyframes by the brute-force branch.
C18_RotationSeen ==
  /\ Loaded
  /\ required_frames >= 2
  /\ \E id \in DOMAIN Result :
       /\ GeneralBranch(bone_animations[id].rotation_timestamps)
       /\ \E i \in 1..required_frames :
            StrictlyInside(bone_animations[id].rotation_timestamps, GridTime(i - 1), 2)


\* C19: a node whose raw record has weights has weights in the resampled
\* mapping too.
C19_WeightsCarried ==
  Loaded =>
    \A id \in DOMAIN bone_animations :
      bone_animations[id].weights # <<>> =>
        (id \in DOMAIN Result /\ Result[id].weights # <<>>)

\* No resampled record has weights or weight timestamps.
C19_WeightsDropped ==
  \A id \in DOMAIN Result :
    Result[id].weights = <<>> /\ Result[id].weight_timestamps = <<>>

\* The value array and the timestamp array of each listed pair of a record
\* are equally long.
TrsPairsMatch(r) ==
  /\ Len(r.translations) = Len(r.translation_timestamps)
  /\ Len(r.rotations) = Len(r.rotation_timestamps)
  /\ Len(r.scales) = Len(r.scale_timestamps)
WeightPairMatches(r) == Len(r.weights) = Len(r.weight_timestamps)

\* C20 as claimed: in every record the extractor returns, each of the four
\* (value array, timestamp array) pairs has equal length.
C20_AllPairsMatch ==
  Extracted =>
    \A id \in DOMAIN bone_animations :
      TrsPairsMatch(bone_animations[id]) /\ WeightPairMatches(bone_animations[id])

\* C20 amended: the translation, rotation and scale pairs of every record
\* have equal length, and a channel of these kinds that would break this
\* leaves the mapping empty; the weight pair is not compared.
C20_TrsPairsMatch ==
  Extracted =>
    /\ \A id \in DOMAIN bone_animations : TrsPairsMatch(bone_animations[id])
    /\ (\E i \in 1..Len(clip) : Mismatched(clip[i])) => bone_animations = EmptyMap

\* C20 witness: a record with matching translations and with four weights
\* for two weight timestamps.
C20_Witness ==
  /\ Extracted
  /\ \E id \in DOMAIN bone_animations :
       /\ Len(bone_animations[id].translations) = 2
       /\ Len(bone_animations[id].translation_timestamps) = 2
       /\ Len(bone_animations[id].weights) = 4
       /\ Len(bone_animations[id].weight_timestamps) = 2

\* The gaps between consecutive timestamps of the arrays the scan reads.
ScannedGaps(m) ==
  UNION {Gaps(ts) : ts \in UNION {StampArraysScanned(m[id]) : id \in DOMAIN m}}

\* C21: min_distance is the smallest strictly positive gap between
\* consecutive timestamps of one channel: whenever the scan takes it from
\* keyframe gaps it is > 0.
C21_PositiveMinDistance ==
  Timed => (timing.min_distance # F32_MAX => timing.min_distance > 0)

\* min_distance is the smallest gap the scan has read, of either sign, and
\* never the gap before a first timestamp.
C21_SmallestScannedGap ==
  Timed =>
    IF ScannedGaps(bone_animations) = {} THEN timing.min_distance = F32_MAX
    ELSE /\ timing.min_distance \in ScannedGaps(bone_animations)
         /\ \A g \in ScannedGaps(bone_animations) : timing.min_distance <= g

\* The source keyframes whose precision key is that of the grid time t.
KeyHits(ts, t) == {j \in 1..Len(ts) : into_precision(ts[j]) = into_precision(t)}
FirstOf(hits) == CHOOSE j \in hits : \A k \in hits : j <= k

\* In the brute-force branch every grid slot with the key of a source
\* keyframe holds the first such keyframe, and every slot with key 0 and no
\* such keyframe holds the second source value.
ExactLookup(ts, vals, out, stamps) ==
  GeneralBranch(ts) =>
    \A i \in 1..required_frames :
      IF KeyHits(ts, GridTime(i - 1)) # {}
      THEN /\ out[i] = vals[FirstOf(KeyHits(ts, GridTime(i - 1)))]
           /\ stamps[i] = ts[FirstOf(KeyHits(ts, GridTime(i - 1)))]
      ELSE into_precision(GridTime(i - 1)) = 0 => out[i] = vals[2]

\* C24: in the general-case branch a grid point whose precision key equals
\* that of some source timestamp gets the value of the first such keyframe
\* verbatim; a grid point with key 0 and no match gets the source value at
\* index 1.
C24_ExactMatch ==
  (Loaded /\ required_frames >= 1) =>
    \A id \in DOMAIN Result :
      /\ ExactLookup(bone_animations[id].translation_timestamps,
                     bone_animations[id].translations,
                     Result[id].translations, Result[id].translation_timestamps)
      /\ ExactLookup(bone_animations[id].rotation_timestamps,
                     bone_animations[id].rotations,
                     Result[id].rotations, Result[id].rotation_timestamps)
      /\ ExactLookup(bone_animations[id].scale_timestamps,
                     bone_animations[id].scales,
                     Result[id].scales, Result[id].scale_timestamps)

\* C24 witness: scales at t = 0, 0, 1.0 resampled to the first of the two
\* keyframes of key 0, and translations that start at t = 0.1 resampled at
\* key 0 to their second value.
C24_Witness ==
  /\ Loaded
  /\ required_frames >= 2
  /\ \E id \in DOMAIN Result :
       /\ bone_animations[id].scale_timestamps = <<0, 0, T(10)>>
       /\ GeneralBranch(bone_animations[id].scale_timestamps)
       /\ Result[id].scales[1] = bone_animations[id].scales[1]
       /\ Result[id].scales[1] # bone_animations[id].scales[2]
C24_FallbackSeen ==
  /\ Loaded
  /\ required_frames >= 2
  /\ \E id \in DOMAIN Result :
       /\ bone_animations[id].translation_timestamps = <<T(1), T(10)>>
       /\ KeyHits(bone_animations[id].translation_timestamps, GridTime(0)) = {}
       /\ Result[id].translations[1] = bone_animations[id].translations[2]

\* A component the brute-force branch interpolates at grid time t: no
\* source keyframe has the key of t, and that key is not 0.
InterpolatedAt(ts, t) ==
  /\ GeneralBranch(ts)
  /\ KeyHits(ts, t) = {}
  /\ into_precision(t) # 0
\* follow_timestamp - lead_timestamp at grid time t.
SpanAt(ts, t) ==
  ts[FollowingFrame(ts, into_precision(t), LeadingFrame(ts, into_precision(t)))]
    - ts[LeadingFrame(ts, into_precision(t))]
NonZeroSpans(ts) ==
  \A i \in 1..required_frames :
    InterpolatedAt(ts, GridTime(i - 1)) => SpanAt(ts, GridTime(i - 1)) # 0

\* C26: whenever the general-case branch interpolates between a leading and
\* a following keyframe, the divisor follow_timestamp - lead_timestamp is
\* non-zero, also for a grid point later than the last keyframe.
C26_NonZeroSpan ==
  (Loaded /\ required_frames >= 2) =>
    \A id \in DOMAIN Result :
      /\ NonZeroSpans(bone_animations[id].translation_timestamps)
      /\ NonZeroSpans(bone_animations[id].rotation_timestamps)
      /\ NonZeroSpans(bone_animations[id].scale_timestamps)

\* A grid point past the last keyframe is resampled to a non-finite value.
C26_PastTheEndIsFinite ==
  (Loaded /\ required_frames >= 2) =>
    \A id \in DOMAIN Result : \A i \in 1..required_frames : \A c \in 1..3 :
      IsFinite(Result[id].translations[i][c])

\* A component with two keyframes or more that is not copied verbatim: the
\* two-keyframe or the general-case branch runs for it.
PercentileBranch(ts) ==
  /\ Len(ts) >= 2
  /\ ~(/\ into_precision(ts[1]) = 0
       /\ into_precision(ts[Len(ts)]) = into_precision(timing.max_time)
       /\ Len(ts) = required_frames)

\* C27: whenever the two-keyframe branch or the general-case branch computes
\* a percentile for a component of a node, required_frames >= 2.
C27_AtLeastTwoFrames ==
  (pc \in {"resample", "done"} /\ required_frames >= 1) =>
    \A id \in DOMAIN finalized_bone_animations :
      (\/ PercentileBranch(bone_animations[id].translation_timestamps)
       \/ PercentileBranch(bone_animations[id].rotation_timestamps)
       \/ PercentileBranch(bone_animations[id].scale_timestamps))
        => required_frames >= 2

\* grab_animations over the channels chs, from index i on, from mapping m.
RECURSIVE GrabFrom(_, _, _)
GrabFrom(m, chs, i) ==
  IF i > Len(chs) THEN m
  ELSE IF ExtractChannel(m, chs[i]).brk THEN ExtractChannel(m, chs[i]).channels
  ELSE GrabFrom(ExtractChannel(m, chs[i]).channels, chs, i + 1)
\* The orders in which the channels of chs can appear in a clip.
Orders(chs) ==
  {p \in [1..Len(chs) -> 1..Len(chs)] : \A a, b \in 1..Len(chs) : p[a] = p[b] => a = b}
Reordered(chs, p) == [i \in 1..Len(chs) |-> chs[p[i]]]

\* C28: the mapping the extractor returns is the same for every order of
\* the same channels.
C28_OrderIndependent ==
  Extracted =>
    \A p \in Orders(clip) : GrabFrom(EmptyMap, Reordered(clip, p), 1) = bone_animations

\* The same for clips in which every channel stores at least one value.
C28_NonEmptyChannels ==
  (Extracted /\ \A i \in 1..Len(clip) : clip[i].vals # <<>>) =>
    \A p \in Orders(clip) : GrabFrom(EmptyMap, Reordered(clip, p), 1) = bone_animations

\* The file cannot be loaded at all: no such path, an unreadable file, a
\* document without a scene, a first scene without a mesh primitive.
Unloadable ==
  \/ asset.fault \in {"missing", "unreadable"}
  \/ asset.scenes = 0
  \/ asset.primitives = <<>>
\* Nothing of the animation has been read or computed.
NoExtraction ==
  /\ pc \in {"open", "done"}
  /\ clip = <<>>
  /\ bone_animations = EmptyMap
  /\ finalized_bone_animations = EmptyMap

\* C22: load returns Err and no asset when the path does not exist or
\* cannot be read, when the document has no scene, and when the first scene
\* yields no primitive; animation extraction is not attempted.
C22_TerminalErrors ==
  Unloadable =>
    /\ NoExtraction
    /\ pc = "done" => (outcome = "err" /\ gltf = NewGLTF)

\* C22 witness: load has returned Err for a readable document without a
\* primitive.
C22_Witness ==
  /\ pc = "done"
  /\ outcome = "err"
  /\ asset.fault = "none" /\ asset.scenes = 1 /\ asset.primitives = <<>>
  /\ gltf = NewGLTF
C22_MissingPathSeen == pc = "done" /\ outcome = "err" /\ asset.fault = "missing"
C22_NoSceneSeen == pc = "done" /\ outcome = "err" /\ asset.fault = "none" /\ asset.scenes = 0

\* Some primitive of a loadable file lacks joints or weights.
SomePrimitiveUnskinned ==
  /\ Preamble(asset) = "ok"
  /\ \E i \in 1..Len(asset.primitives) :
       ~(asset.primitives[i].has_joints /\ asset.primitives[i].has_weights)

\* C25: animation is extracted and resampled only if every primitive has
\* joints and weights; if some primitive, at any position, lacks either,
\* nothing is extracted, no bone animation is stored and the asset is
\* reported as not animated.
C25_SkinnedOnly ==
  /\ pc \in {"grab", "timing", "resample"} =>
       \A i \in 1..Len(asset.primitives) :
         asset.primitives[i].has_joints /\ asset.primitives[i].has_weights
  /\ SomePrimitiveUnskinned =>
       /\ NoExtraction
       /\ pc = "done" =>
            /\ outcome = "ok"
            /\ ~gltf.bone_animations.some
            /\ ~gltf.is_animated
            /\ gltf.model.primitives = asset.primitives

\* C25 witness: load has returned a model whose first primitive has joints
\* and weights and whose second has no joints.
C25_Witness ==
  /\ pc = "done"
  /\ outcome = "ok"
  /\ Len(asset.primitives) = 2
  /\ asset.primitives[1].has_joints /\ asset.primitives[1].has_weights
  /\ ~asset.primitives[2].has_joints
  /\ ~gltf.is_animated
  /\ ~gltf.bone_animations.some

TriangleModes == {"Triangles", "TriangleStrip", "TriangleFan"}
LineModes == {"Lines", "LineStrip", "LineLoop"}

\* C23: Primitive::triangles returns Err(BadMode) exactly when the mode is
\* not Triangles, TriangleStrip or TriangleFan, Primitive::lines exactly
\* when it is not Lines, LineStrip or LineLoop, Primitive::points returns Ok
\* exactly when the mode is Points; BadMode carries the primitive's mode.
C23_BadMode ==
  /\ called = "triangles" => (returned.tag = "Err" <=> primitive.mode \notin TriangleModes)
  /\ called = "lines" => (returned.tag = "Err" <=> primitive.mode \notin LineModes)
  /\ called = "points" =>
       /\ returned.tag = "Ok" <=> primitive.mode = "Points"
       /\ returned.tag \in {"Ok", "Err"}
       /\ returned.tag = "Ok" => returned.items = primitive.vertices
  /\ returned.tag = "Err" => returned.mode = primitive.mode

\* C23 witness: lines called on a triangle fan returns BadMode(TriangleFan).
C23_Witness ==
  /\ called = "lines"
  /\ primitive.mode = "TriangleFan"
  /\ Len(primitive.vertices) = 3
  /\ returned.tag = "Err"
  /\ returned.mode = "TriangleFan"

\* C29: Primitive::triangles and Primitive::lines return without panicking
\* for every primitive whose indices all name existing vertices, whatever
\* the number of indices or vertices.
C29_NoPanic ==
  called \in {"triangles", "lines"} => returned.tag # "panic"

\* The index list the accessors walk, from 0.
Idx(i) == EffectiveIndices(primitive)[i + 1]
Vtx(k) == primitive.vertices[k + 1]
IndexCount == Len(EffectiveIndices(primitive))
\* Triangle i (from 0) of the result is (v[idx[a]], v[idx[b]], v[idx[c]]).
TriangleIs(i, a, b, c) == returned.items[i + 1] = <<Vtx(Idx(a)), Vtx(Idx(b)), Vtx(Idx(c))>>

\* C30: every triangle Primitive::triangles returns is made of the vertices
\* its index entries name: in Triangles mode triangle j is idx[3j],
\* idx[3j+1], idx[3j+2]; in TriangleFan mode triangle i is idx[0], idx[i],
\* idx[i+1]; in TriangleStrip mode triangle i is idx[i], idx[i+1], idx[i+2]
\* with the first two swapped for odd i; there are len/3, len-2 and len-2
\* triangles.
C30_TrianglesFollowIndices ==
  (called = "triangles" /\ returned.tag = "Ok") =>
    /\ primitive.mode = "Triangles" =>
         /\ Len(returned.items) = IndexCount \div 3
         /\ \A j \in 0..(Len(returned.items) - 1) : TriangleIs(j, 3 * j, 3 * j + 1, 3 * j + 2)
    /\ primitive.mode = "TriangleFan" =>
         /\ Len(returned.items) = IF IndexCount >= 2 THEN IndexCount - 2 ELSE 0
         /\ \A i \in 1..Len(returned.items) : TriangleIs(i - 1, 0, i, i + 1)
    /\ primitive.mode = "TriangleStrip" =>
         /\ Len(returned.items) = IndexCount - 2
         /\ \A i \in 0..(Len(returned.items) - 1) :
              IF i % 2 = 0 THEN TriangleIs(i, i, i + 1, i + 2)
              ELSE TriangleIs(i, i + 1, i, i + 2)

\* The same without the strips that have an index list.
C30_ExceptIndexedStrips ==
  (called = "triangles" /\ returned.tag = "Ok"
     /\ ~(primitive.mode = "TriangleStrip" /\ primitive.indices.some)) =>
    /\ primitive.mode = "Triangles" =>
         /\ Len(returned.items) = IndexCount \div 3
         /\ \A j \in 0..(Len(returned.items) - 1) : TriangleIs(j, 3 * j, 3 * j + 1, 3 * j + 2)
    /\ primitive.mode = "TriangleFan" =>
         /\ Len(returned.items) = IF IndexCount >= 2 THEN IndexCount - 2 ELSE 0
         /\ \A i \in 1..Len(returned.items) : TriangleIs(i - 1, 0, i, i + 1)
    /\ primitive.mode = "TriangleStrip" =>
         /\ Len(returned.items) = IndexCount - 2
         /\ \A i \in 0..(Len(returned.items) - 1) :
              IF i % 2 = 0 THEN TriangleIs(i, i, i + 1, i + 2)
              ELSE TriangleIs(i, i + 1, i, i + 2)

====
